---- MODULE Spec2Model ----
(***************************************************************************)
(* Model of src/app.py, the "Strategic Intelligence Unit" script: one run  *)
(* of the UI main block (Hunter -> Architect -> chart -> schematic ->      *)
(* document -> download button) together with the text processing done by  *)
(* get_strategic_narrative, create_premium_chart, clean_markdown and       *)
(* create_consulting_doc.                                                  *)
(*                                                                         *)
(* A Python str is a sequence of one-character strings.                    *)
(***************************************************************************)
EXTENDS Integers, Sequences, FiniteSets, TLC

VARIABLES pc, company, research, response, strategy, narrative_exc,
          data, chart_info, chart, arch, doc_file, calls, returned, error

vars == <<pc, company, research, response, strategy, narrative_exc,
          data, chart_info, chart, arch, doc_file, calls, returned, error>>

-----------------------------------------------------------------------------
(* Python str primitives                                                   *)

\* Characters str.strip() and the regex class \s treat as whitespace.
Whitespace == {" ", "\n", "\t", "\r"}

DigitChars == <<"0", "1", "2", "3", "4", "5", "6", "7", "8", "9">>

IsDigit(c) == c \in {"0", "1", "2", "3", "4", "5", "6", "7", "8", "9"}

DigitVal(c) == (CHOOSE k \in 1..Len(DigitChars) : DigitChars[k] = c) - 1

\* s[i:].startswith(pat), with 1-based i.
StartsWithAt(s, i, pat) ==
    /\ i + Len(pat) - 1 <= Len(s)
    /\ \A k \in 1..Len(pat) : s[i + k - 1] = pat[k]

\* The least j in lo..hi with P(j), or 0 when there is none.
First(lo, hi, P(_)) ==
    IF \E j \in lo..hi : P(j)
    THEN CHOOSE j \in lo..hi : P(j) /\ \A k \in lo..(j - 1) : ~P(k)
    ELSE 0

RECURSIVE ReplaceFrom(_, _, _, _)
\* s[i:] with each occurrence of old, found left to right, replaced by new.
ReplaceFrom(s, i, old, new) ==
    LET j == First(i, Len(s), LAMBDA x : StartsWithAt(s, x, old))
    IN IF j = 0 THEN SubSeq(s, i, Len(s))
       ELSE SubSeq(s, i, j - 1) \o new \o ReplaceFrom(s, j + Len(old), old, new)

\* str.replace(old, new) for a non-empty old: every non-overlapping
\* occurrence, scanning left to right.
str_replace(s, old, new) == ReplaceFrom(s, 1, old, new)

\* str.strip(): leading and trailing whitespace removed.
str_strip(s) ==
    LET first == First(1, Len(s), LAMBDA x : s[x] \notin Whitespace)
    IN IF first = 0 THEN <<>>
       ELSE SubSeq(s, first,
                   CHOOSE i \in first..Len(s) :
                       /\ s[i] \notin Whitespace
                       /\ \A j \in (i + 1)..Len(s) : s[j] \in Whitespace)

\* Lexicographic order on strings of digit characters (Python's str order
\* restricted to the digits).
RECURSIVE StrLess(_, _)
StrLess(a, b) ==
    IF b = <<>> THEN FALSE
    ELSE IF a = <<>> THEN TRUE
    ELSE IF a[1] = b[1] THEN StrLess(Tail(a), Tail(b))
    ELSE DigitVal(a[1]) < DigitVal(b[1])

RECURSIVE SortedOf(_)
\* sorted(list(S)) for a set S of digit strings.
SortedOf(S) ==
    IF S = {} THEN <<>>
    ELSE LET m == CHOOSE x \in S : \A y \in S \ {x} : StrLess(x, y)
         IN <<m>> \o SortedOf(S \ {m})

\* seq[-n:]
LastN(seq, n) ==
    IF Len(seq) <= n THEN seq ELSE SubSeq(seq, Len(seq) - n + 1, Len(seq))

\* seq[:n]
FirstN(seq, n) ==
    IF Len(seq) <= n THEN seq ELSE SubSeq(seq, 1, n)

-----------------------------------------------------------------------------
(* create_premium_chart: regex extraction and float conversion             *)

YearLastDigits == {"2", "3", "4", "5", "6"}

\* The pattern 202[2-6] matches at position i.
YearAt(s, i) ==
    /\ i + 3 <= Len(s)
    /\ s[i] = "2" /\ s[i + 1] = "0" /\ s[i + 2] = "2"
    /\ s[i + 3] \in YearLastDigits

RECURSIVE FindYearsFrom(_, _)
\* The matches in s[i:], left to right and not overlapping.
FindYearsFrom(s, i) ==
    LET j == First(i, Len(s), LAMBDA x : YearAt(s, x))
    IN IF j = 0 THEN <<>>
       ELSE <<SubSeq(s, j, j + 3)>> \o FindYearsFrom(s, j + 4)

\* re.findall(r'202[2-6]', s)
findall_years(s) == FindYearsFrom(s, 1)

IsAmountChar(c) == IsDigit(c) \/ c = "."

RECURSIVE RunEnd(_, _)
\* Last index of the maximal run of [\d\.] characters starting at i.
RunEnd(s, i) ==
    IF i + 1 <= Len(s) /\ IsAmountChar(s[i + 1]) THEN RunEnd(s, i + 1) ELSE i

\* The pattern \$([\d\.]+) matches at position i.
AmountAt(s, i) == s[i] = "$" /\ i + 1 <= Len(s) /\ IsAmountChar(s[i + 1])

RECURSIVE FindAmountsFrom(_, _)
FindAmountsFrom(s, i) ==
    LET j == First(i, Len(s), LAMBDA x : AmountAt(s, x))
    IN IF j = 0 THEN <<>>
       ELSE LET e == RunEnd(s, j + 1)
            IN <<SubSeq(s, j + 1, e)>> \o FindAmountsFrom(s, e + 1)

\* re.findall(r'\$([\d\.]+)', s): the captured group of every match.
findall_amounts(s) == FindAmountsFrom(s, 1)

\* float(x) raises ValueError on a string of digits and dots unless it has
\* at least one digit and at most one dot.
FloatOk(x) ==
    /\ \E i \in 1..Len(x) : IsDigit(x[i])
    /\ Cardinality({i \in 1..Len(x) : x[i] = "."}) <= 1

RECURSIVE DigitsToInt(_)
DigitsToInt(ds) ==
    IF ds = <<>> THEN 0
    ELSE 10 * DigitsToInt(SubSeq(ds, 1, Len(ds) - 1)) + DigitVal(ds[Len(ds)])

RECURSIVE Normalize(_)
\* A decimal m * 10^-e without trailing fractional zeros.
Normalize(d) ==
    IF d.e > 0 /\ d.m % 10 = 0 THEN Normalize([m |-> d.m \div 10, e |-> d.e - 1])
    ELSE d

\* float(x) for FloatOk(x): the decimal value the digits denote.
Float(x) ==
    LET dots == {i \in 1..Len(x) : x[i] = "."}
        dot  == IF dots = {} THEN Len(x) + 1 ELSE CHOOSE i \in dots : TRUE
        ds   == SelectSeq(x, IsDigit)
    IN Normalize([m |-> DigitsToInt(ds), e |-> IF dots = {} THEN 0 ELSE Len(x) - dot])

Dec(m, e) == [m |-> m, e |-> e]

\* data as initialised at lines 98-101.
DefaultData ==
    [Year    |-> << <<"2", "0", "2", "2">>, <<"2", "0", "2", "3">>,
                    <<"2", "0", "2", "4">>, <<"2", "0", "2", "5">> >>,
     Revenue |-> << Dec(105, 1), Dec(121, 1), Dec(142, 1), Dec(168, 1) >>]

\* An optional text: None, or a str.
None == [none |-> TRUE, text |-> <<>>]
Some(t) == [none |-> FALSE, text |-> t]

\* sorted(list(set(years)))[-4:]
YearColumn(years) == LastN(SortedOf({years[i] : i \in 1..Len(years)}), 4)

\* Lines 98-113 of create_premium_chart: the data dictionary at the point
\* the data frame is built, whether the try block raised, and whether
\* pd.DataFrame(data) raises (columns of unequal length).
create_premium_chart(research_text) ==
    LET years   == IF research_text.none THEN <<>> ELSE findall_years(research_text.text)
        amounts == IF research_text.none THEN <<>> ELSE findall_amounts(research_text.text)
        enough  == Len(years) >= 4 /\ Len(amounts) >= 4
        first4  == FirstN(amounts, 4)
        floats  == \A i \in 1..Len(first4) : FloatOk(first4[i])
        d       == IF ~enough THEN DefaultData
                   ELSE IF ~floats
                        THEN [DefaultData EXCEPT !.Year = YearColumn(years)]
                        ELSE [Year    |-> YearColumn(years),
                              Revenue |-> [i \in 1..Len(first4) |-> Float(first4[i])]]
    IN [data      |-> d,
        n_years   |-> Len(years),
        n_amounts |-> Len(amounts),
        raised    |-> research_text.none \/ (enough /\ ~floats),
        df_raised |-> Len(d.Year) # Len(d.Revenue)]

-----------------------------------------------------------------------------
(* Python values produced by eval                                          *)

\* Every value has the same record shape, tagged by its Python type.
PyStr(s)      == [t |-> "str", s |-> s, n |-> 0, items |-> <<>>]
PyInt(n)      == [t |-> "int", s |-> <<>>, n |-> n, items |-> <<>>]
PyBool(b)     == [t |-> "bool", s |-> <<>>, n |-> IF b THEN 1 ELSE 0, items |-> <<>>]
PyNone        == [t |-> "NoneType", s |-> <<>>, n |-> 0, items |-> <<>>]
PyList(items) == [t |-> "list", s |-> <<>>, n |-> 0, items |-> items]
\* A dict is its items in insertion order, each [k |-> key, v |-> value].
PyDict(items) == [t |-> "dict", s |-> <<>>, n |-> 0, items |-> items]

\* d[k] = v on the items of a dict.
DictSet(items, k, v) ==
    IF \E i \in 1..Len(items) : items[i].k = k
    THEN [i \in 1..Len(items) |->
             IF items[i].k = k THEN [k |-> k, v |-> v] ELSE items[i]]
    ELSE Append(items, [k |-> k, v |-> v])

\* k in d, for a value d of any type subscripted with a str key: only a
\* dict holding the key answers; every other case raises (KeyError for a
\* dict, TypeError for a list, str, int, bool or None).
HasKey(d, k) ==
    d.t = "dict" /\ \E i \in 1..Len(d.items) : d.items[i].k = PyStr(k)

\* d[k] for HasKey(d, k).
DictGet(d, k) ==
    d.items[CHOOSE i \in 1..Len(d.items) : d.items[i].k = PyStr(k)].v

\* bool(v) is False.
Falsy(v) ==
    \/ v.t = "NoneType"
    \/ v.t \in {"int", "bool"} /\ v.n = 0
    \/ v.t = "str" /\ v.s = <<>>
    \/ v.t \in {"list", "dict"} /\ v.items = <<>>

-----------------------------------------------------------------------------
(* eval(text) on the literal subset of Python expressions: dict and list   *)
(* displays, quoted strings (adjacent ones concatenated), non-negative     *)
(* integers, None, True and False.  Any other name raises NameError and    *)
(* any other text SyntaxError; both are reported as a failed evaluation.   *)
(* Not covered, and absent from the texts evaluated here: backslash        *)
(* escapes, triple-quoted strings, comments, operators, calls, tuples,     *)
(* sets and floats.                                                        *)

Letters == {"a", "b", "c", "d", "e", "f", "g", "h", "i", "j", "k", "l", "m",
            "n", "o", "p", "q", "r", "s", "t", "u", "v", "w", "x", "y", "z",
            "A", "B", "C", "D", "E", "F", "G", "H", "I", "J", "K", "L", "M",
            "N", "O", "P", "Q", "R", "S", "T", "U", "V", "W", "X", "Y", "Z",
            "_"}

Quotes == {"\"", "'"}

Raised == [ok |-> FALSE, val |-> PyNone, pos |-> 0]
Parsed(v, p) == [ok |-> TRUE, val |-> v, pos |-> p]

\* The character at i, or "" past the end.
At(s, i) == IF i >= 1 /\ i <= Len(s) THEN s[i] ELSE ""

RECURSIVE SkipWs(_, _)
SkipWs(s, i) == IF At(s, i) \in Whitespace THEN SkipWs(s, i + 1) ELSE i

RECURSIVE SkipBlanks(_, _)
\* Outside brackets a newline ends the expression: only blanks are skipped.
SkipBlanks(s, i) == IF At(s, i) \in {" ", "\t"} THEN SkipBlanks(s, i + 1) ELSE i

Skip(s, i, nested) == IF nested THEN SkipWs(s, i) ELSE SkipBlanks(s, i)

\* One quoted string starting at the quote s[i].
ParseString(s, i) ==
    LET j == First(i + 1, Len(s), LAMBDA x : s[x] = s[i])
    IN IF j = 0 THEN Raised
       ELSE LET body == SubSeq(s, i + 1, j - 1)
            IN IF \E k \in 1..Len(body) : body[k] \in {"\n", "\\"}
               THEN Raised
               ELSE Parsed(PyStr(body), j + 1)

RECURSIVE ParseStrings(_, _, _, _)
\* Adjacent string literals are concatenated.
ParseStrings(s, i, nested, acc) ==
    LET r == ParseString(s, i)
    IN IF ~r.ok THEN Raised
       ELSE LET k == Skip(s, r.pos, nested)
            IN IF At(s, k) \in Quotes
               THEN ParseStrings(s, k, nested, acc \o r.val.s)
               ELSE Parsed(PyStr(acc \o r.val.s), r.pos)

RECURSIVE WordEnd(_, _)
WordEnd(s, i) ==
    IF At(s, i + 1) \in Letters \/ IsDigit(At(s, i + 1)) THEN WordEnd(s, i + 1) ELSE i

RECURSIVE DigitsEnd(_, _)
DigitsEnd(s, i) == IF IsDigit(At(s, i + 1)) THEN DigitsEnd(s, i + 1) ELSE i

ParseName(s, i) ==
    LET j == WordEnd(s, i)
        w == SubSeq(s, i, j)
    IN IF w = <<"N", "o", "n", "e">> THEN Parsed(PyNone, j + 1)
       ELSE IF w = <<"T", "r", "u", "e">> THEN Parsed(PyBool(TRUE), j + 1)
       ELSE IF w = <<"F", "a", "l", "s", "e">> THEN Parsed(PyBool(FALSE), j + 1)
       ELSE Raised

ParseInt(s, i) ==
    LET j == DigitsEnd(s, i)
        w == SubSeq(s, i, j)
    IN IF At(s, j + 1) \in Letters \cup {"."} THEN Raised
       ELSE IF Len(w) > 1 /\ w[1] = "0" /\ DigitsToInt(w) # 0 THEN Raised
       ELSE Parsed(PyInt(DigitsToInt(w)), j + 1)

RECURSIVE ParseValue(_, _, _)
RECURSIVE ParseDictItems(_, _, _)
RECURSIVE ParseListItems(_, _, _)

\* The expression starting at the non-blank position i.
ParseValue(s, i, nested) ==
    LET c == At(s, i)
    IN IF c \in Quotes THEN ParseStrings(s, i, nested, <<>>)
       ELSE IF c = "{" THEN ParseDictItems(s, SkipWs(s, i + 1), <<>>)
       ELSE IF c = "[" THEN ParseListItems(s, SkipWs(s, i + 1), <<>>)
       ELSE IF IsDigit(c) THEN ParseInt(s, i)
       ELSE IF c \in Letters THEN ParseName(s, i)
       ELSE Raised

\* The rest of a dict display after its opening brace, at position i.
ParseDictItems(s, i, acc) ==
    IF At(s, i) = "}" THEN Parsed(PyDict(acc), i + 1)
    ELSE LET key == ParseValue(s, i, TRUE)
         IN IF ~key.ok \/ key.val.t \in {"list", "dict"} THEN Raised
            ELSE LET j == SkipWs(s, key.pos)
                 IN IF At(s, j) # ":" THEN Raised
                    ELSE LET val == ParseValue(s, SkipWs(s, j + 1), TRUE)
                         IN IF ~val.ok THEN Raised
                            ELSE LET k    == SkipWs(s, val.pos)
                                     next == DictSet(acc, key.val, val.val)
                                 IN IF At(s, k) = ","
                                    THEN ParseDictItems(s, SkipWs(s, k + 1), next)
                                    ELSE IF At(s, k) = "}"
                                         THEN Parsed(PyDict(next), k + 1)
                                         ELSE Raised

\* The rest of a list display after its opening bracket, at position i.
ParseListItems(s, i, acc) ==
    IF At(s, i) = "]" THEN Parsed(PyList(acc), i + 1)
    ELSE LET val == ParseValue(s, i, TRUE)
         IN IF ~val.ok THEN Raised
            ELSE LET k == SkipWs(s, val.pos)
                 IN IF At(s, k) = ","
                    THEN ParseListItems(s, SkipWs(s, k + 1), Append(acc, val.val))
                    ELSE IF At(s, k) = "]"
                         THEN Parsed(PyList(Append(acc, val.val)), k + 1)
                         ELSE Raised

\* eval(text): the value, or a raised exception.
Eval(text) ==
    LET i == SkipBlanks(text, 1)
        r == ParseValue(text, i, FALSE)
    IN IF r.ok /\ SkipWs(text, r.pos) > Len(text) THEN r ELSE Raised

-----------------------------------------------------------------------------
(* get_strategic_narrative                                                 *)

title             == <<"t", "i", "t", "l", "e">>
executive_summary == <<"e", "x", "e", "c", "u", "t", "i", "v", "e", "_", "s", "u", "m", "m", "a", "r", "y">>
problem_deep_dive == <<"p", "r", "o", "b", "l", "e", "m", "_", "d", "e", "e", "p", "_", "d", "i", "v", "e">>
solution_tech     == <<"s", "o", "l", "u", "t", "i", "o", "n", "_", "t", "e", "c", "h">>
financial_impact  == <<"f", "i", "n", "a", "n", "c", "i", "a", "l", "_", "i", "m", "p", "a", "c", "t">>
roadmap           == <<"r", "o", "a", "d", "m", "a", "p">>

\* The six keys of the JSON format the prompt asks for (lines 72-79), in
\* the order create_consulting_doc reads them.
ExpectedKeys == <<title, executive_summary, problem_deep_dive,
                  solution_tech, financial_impact, roadmap>>

\* The grave accent U+0060, which a TLA+ string cannot hold.
Backtick == "BACKTICK"

Fence     == <<Backtick, Backtick, Backtick>>
FenceJson == Fence \o <<"j", "s", "o", "n">>

NotAvailable == <<"N", "/", "A">>

\* The mapping returned by the except branch (lines 86-91).
Fallback(c) ==
    PyDict(<< [k |-> PyStr(title),
               v |-> PyStr(<<"S", "t", "r", "a", "t", "e", "g", "i", "c", " ", "R", "o", "a", "d", "m", "a", "p", ":", " ">> \o c)],
              [k |-> PyStr(executive_summary),
               v |-> PyStr(<<"A", "n", "a", "l", "y", "s", "i", "s", " ", "d", "a", "t", "a", " ", "u", "n", "a", "v", "a", "i", "l", "a", "b", "l", "e", ".", " ", "P", "l", "e", "a", "s", "e", " ", "r", "e", "t", "r", "y", " ", "a", "g", "e", "n", "t", ".">>)],
              [k |-> PyStr(problem_deep_dive), v |-> PyStr(NotAvailable)],
              [k |-> PyStr(solution_tech), v |-> PyStr(NotAvailable)],
              [k |-> PyStr(financial_impact), v |-> PyStr(NotAvailable)],
              [k |-> PyStr(roadmap), v |-> PyStr(NotAvailable)] >>)

\* Line 83: both fence markers are removed wherever they occur, then the
\* text is stripped.
StripFences(text) ==
    str_strip(str_replace(str_replace(text, FenceJson, <<>>), Fence, <<>>))

\* get_strategic_narrative with an except clause that catches only the
\* failure of the model call: a response text that does not evaluate
\* yields no mapping.
get_strategic_narrative_narrow_except(c, resp) ==
    IF resp.kind = "raise"
    THEN [value |-> Fallback(c), exc |-> "model"]
    ELSE LET r == Eval(StripFences(resp.text))
         IN [value |-> r.val, exc |-> IF r.ok THEN "none" ELSE "eval"]

\* Lines 81-91.  resp is the outcome of the model call: an exception
\* raised by generate_content or by response.text, or the response text.
\* Which handler ran is reported with the value returned.
get_strategic_narrative(c, resp) ==
    IF resp.kind = "raise"
    THEN [value |-> Fallback(c), exc |-> "model"]
    ELSE LET r == Eval(StripFences(resp.text))
         IN IF r.ok THEN [value |-> r.val, exc |-> "none"]
            ELSE [value |-> Fallback(c), exc |-> "eval"]

-----------------------------------------------------------------------------
(* clean_markdown and create_consulting_doc                                *)

\* The bullet U+2022, named like Backtick.
Bullet == "BULLET"

Stars  == <<"*", "*">>
Hashes == <<"#", "#">>

\* The opening of the nearest pair of stars after the pair at i, when no
\* newline lies between the two pairs; 0 otherwise.
BoldEnd(s, i) ==
    LET j == First(i + 2, Len(s), LAMBDA x : StartsWithAt(s, x, Stars))
    IN IF j # 0 /\ \A k \in (i + 2)..(j - 1) : s[k] # "\n" THEN j ELSE 0

\* The pattern \*\*(.*?)\*\* matches at position i.
BoldAt(s, i) == StartsWithAt(s, i, Stars) /\ BoldEnd(s, i) # 0

RECURSIVE UnboldFrom(_, _)
\* re.sub(r'\*\*(.*?)\*\*', r'\1', s): each match keeps only its group.
UnboldFrom(s, i) ==
    LET j == First(i, Len(s), LAMBDA x : BoldAt(s, x))
    IN IF j = 0 THEN SubSeq(s, i, Len(s))
       ELSE LET e == BoldEnd(s, j)
            IN SubSeq(s, i, j - 1) \o SubSeq(s, j + 2, e - 1) \o UnboldFrom(s, e + 2)

RECURSIVE UnheadFrom(_, _)
\* re.sub(r'##\s?', '', s)
UnheadFrom(s, i) ==
    LET j == First(i, Len(s), LAMBDA x : StartsWithAt(s, x, Hashes))
    IN IF j = 0 THEN SubSeq(s, i, Len(s))
       ELSE SubSeq(s, i, j - 1)
            \o UnheadFrom(s, IF At(s, j + 2) \in Whitespace THEN j + 3 ELSE j + 2)

\* Lines 33-39.  A falsy argument gives ""; a str is cleaned; re.sub
\* raises TypeError on anything else.
clean_markdown(text) ==
    IF Falsy(text) THEN [ok |-> TRUE, s |-> <<>>]
    ELSE IF text.t # "str" THEN [ok |-> FALSE, s |-> <<>>]
    ELSE [ok |-> TRUE,
          s  |-> str_strip(str_replace(UnheadFrom(UnboldFrom(text.s, 1), 1),
                                       <<"\n", "*", " ">>, <<"\n", Bullet, " ">>))]

RECURSIVE SplitFrom(_, _, _)
SplitFrom(s, i, sep) ==
    LET j == First(i, Len(s), LAMBDA x : StartsWithAt(s, x, sep))
    IN IF j = 0 THEN <<SubSeq(s, i, Len(s))>>
       ELSE <<SubSeq(s, i, j - 1)>> \o SplitFrom(s, j + Len(sep), sep)

\* str.split(sep)
str_split(s, sep) == SplitFrom(s, 1, sep)

Arrow == <<"-", ">">>

\* The keys of strategy, in reading order, whose lookup or cleaning raises.
FailingKeys(strat) ==
    SelectSeq(ExpectedKeys,
              LAMBDA k : ~HasKey(strat, k) \/ ~clean_markdown(DictGet(strat, k)).ok)

\* Lines 182-260: the texts written into the document, or the key at which
\* strategy[key] or clean_markdown raised.
create_consulting_doc(c, strat, chart_img, arch_img) ==
    LET bad == FailingKeys(strat)
    IN IF bad # <<>>
       THEN [ok |-> FALSE, failed_at |-> bad[1], paragraphs |-> <<>>, phases |-> <<>>,
             pictures |-> <<>>]
       ELSE LET text(k) == clean_markdown(DictGet(strat, k)).s
                rows    == str_split(text(roadmap), Arrow)
            IN [ok         |-> TRUE,
                failed_at  |-> <<>>,
                paragraphs |-> <<text(title),
                                 <<"P", "r", "e", "p", "a", "r", "e", "d", " ", "f", "o", "r", " ", "t", "h", "e", " ", "L", "e", "a", "d", "e", "r", "s", "h", "i", "p", " ", "o", "f", " ">> \o c,
                                 text(executive_summary), text(problem_deep_dive),
                                 text(solution_tech), text(financial_impact)>>,
                phases     |-> [i \in 1..Len(rows) |-> str_strip(rows[i])],
                pictures   |-> <<chart_img, arch_img>>]

-----------------------------------------------------------------------------
(* Inputs: companies, research texts and model responses                   *)

\* Longest string value placed in a response literal.
MaxValueLen == 3
\* Longest string value in the responses of a whole run.
RunValueLen == 1

Companies == {<<"X">>, <<"P", "B">>}

ValueChars == {"a", "*", Backtick}

Values(n) == UNION {[1..k -> ValueChars] : k \in 0..n}

StrategyDict(j, v) ==
    PyDict([i \in 1..Len(ExpectedKeys) |->
               [k |-> PyStr(ExpectedKeys[i]),
                v |-> IF i = j THEN v ELSE PyStr(<<ExpectedKeys[i][1]>>)]])

\* Mappings with the six expected keys and string values.
StrategyDicts(n) ==
    {StrategyDict(j, PyStr(v)) : j \in 1..Len(ExpectedKeys), v \in Values(n)}

WithoutKey(d, j) ==
    PyDict(SelectSeq(d.items, LAMBDA it : it.k # PyStr(ExpectedKeys[j])))

\* Other things a model may answer: a list, a number, a mapping lacking a
\* key, a mapping with a number or null for a value.
OtherValues ==
    {PyList(<<PyStr(<<"a">>)>>), PyInt(7)}
    \cup {WithoutKey(StrategyDict(0, PyNone), j) : j \in 1..Len(ExpectedKeys)}
    \cup {StrategyDict(j, v) : j \in 1..Len(ExpectedKeys),
                               v \in {PyInt(7), PyInt(0), PyNone}}

RECURSIVE IntDigits(_)
IntDigits(n) ==
    IF n < 10 THEN <<DigitChars[n + 1]>>
    ELSE IntDigits(n \div 10) \o <<DigitChars[(n % 10) + 1]>>

RECURSIVE RenderJson(_)
RECURSIVE RenderItems(_, _)

\* The JSON text of a value.
RenderJson(v) ==
    IF v.t = "str" THEN <<"\"">> \o v.s \o <<"\"">>
    ELSE IF v.t = "int" THEN IntDigits(v.n)
    ELSE IF v.t = "NoneType" THEN <<"n", "u", "l", "l">>
    ELSE IF v.t = "list" THEN <<"[">> \o RenderItems(v.items, FALSE) \o <<"]">>
    ELSE <<"{">> \o RenderItems(v.items, TRUE) \o <<"}">>

RenderItems(items, pairs) ==
    IF items = <<>> THEN <<>>
    ELSE LET one == IF pairs
                    THEN RenderJson(items[1].k) \o <<":", " ">> \o RenderJson(items[1].v)
                    ELSE RenderJson(items[1])
         IN IF Len(items) = 1 THEN one
            ELSE one \o <<",", " ">> \o RenderItems(Tail(items), pairs)

Fencings == {"none", "json", "plain"}
Paddings == {<<>>, <<"\n">>}

\* body, optionally inside code fences and surrounding whitespace.
Wrap(body, fencing, pad) ==
    pad \o (IF fencing = "json" THEN FenceJson \o <<"\n">> \o body \o <<"\n">> \o Fence
            ELSE IF fencing = "plain" THEN Fence \o <<"\n">> \o body \o <<"\n">> \o Fence
            ELSE body) \o pad

\* The model call raised (generate_content, or reading response.text).
RaisedResponse == [kind |-> "raise", text |-> <<>>, literal |-> FALSE, denotes |-> PyNone]

\* No model call made yet.
NoResponse == [kind |-> "unset", text |-> <<>>, literal |-> FALSE, denotes |-> PyNone]

TextResponse(t, lit, v) == [kind |-> "text", text |-> t, literal |-> lit, denotes |-> v]

\* Outcomes of the model call, with string values of at most n characters.
\* literal marks a text that is a dict literal with the six expected keys
\* and string values, optionally fenced and padded; denotes is the value
\* the text was written from.
Responses(n) ==
    {RaisedResponse}
    \cup {TextResponse(Wrap(RenderJson(d), f, p), TRUE, d) :
             d \in StrategyDicts(n), f \in Fencings, p \in Paddings}
    \cup {TextResponse(RenderJson(v), FALSE, v) : v \in OtherValues}
    \cup {TextResponse(<<>>, FALSE, PyNone),
          TextResponse(<<"H", "e", "r", "e", " ", "i", "s", " ", "t", "h", "e", " ", "m", "e", "m", "o">>, FALSE, PyNone)}

\* The responses tried on get_strategic_narrative alone, and in a whole run.
AllResponses == Responses(MaxValueLen)
RunResponses == Responses(RunValueLen)

Year(d) == <<"2", "0", "2", d>>
Amount(x) == <<"$">> \o x

RECURSIVE Join(_)
\* " ".join(tokens)
Join(tokens) ==
    IF tokens = <<>> THEN <<>>
    ELSE IF Len(tokens) = 1 THEN tokens[1]
    ELSE tokens[1] \o <<" ">> \o Join(Tail(tokens))

\* The research texts tried in a run: no content at all, or some year
\* mentions (none; four distinct; four with repeats; five distinct)
\* followed by some dollar amounts (none; four numbers; four of which the
\* last is no number).
RunYears ==
    {<<>>,
     <<Year("2"), Year("3"), Year("4"), Year("5")>>,
     <<Year("2"), Year("2"), Year("3"), Year("3")>>,
     <<Year("2"), Year("3"), Year("4"), Year("5"), Year("6")>>}
RunAmounts ==
    {<<>>,
     [i \in 1..4 |-> Amount(<<"3">>)],
     [i \in 1..4 |-> IF i = 4 THEN Amount(<<".", ".", ".">>)
                              ELSE Amount(<<"1", "2", ".", "5">>)]}
RunResearch ==
    {None} \cup {Some(Join(ys \o as)) : ys \in RunYears, as \in RunAmounts}

-----------------------------------------------------------------------------
(* One run of the script (lines 264-294)                                   *)

NoData == [Year |-> <<>>, Revenue |-> <<>>]
NoChartInfo == [built |-> FALSE, n_years |-> 0, n_amounts |-> 0, raised |-> FALSE]
NoDoc == [ok |-> FALSE, failed_at |-> <<>>, paragraphs |-> <<>>, phases |-> <<>>,
          pictures |-> <<>>]

Init ==
    /\ pc = "ui"
    /\ company = <<>>
    /\ research = None
    /\ response = NoResponse
    /\ strategy = PyNone
    /\ narrative_exc = "none"
    /\ data = NoData
    /\ chart_info = NoChartInfo
    /\ chart = "none"
    /\ arch = "none"
    /\ doc_file = NoDoc
    /\ calls = <<>>
    /\ returned = <<>>
    /\ error = "none"

\* Line 269 is false: no company typed, or the button not pressed.
Idle ==
    /\ pc = "ui"
    /\ pc' = "end"
    /\ UNCHANGED <<company, research, response, strategy, narrative_exc, data,
                   chart_info, chart, arch, doc_file, calls, returned, error>>

\* Line 269 is true: the audit starts for company c.
Click(c) ==
    /\ pc = "ui"
    /\ company' = c
    /\ pc' = "research"
    /\ UNCHANGED <<research, response, strategy, narrative_exc, data,
                   chart_info, chart, arch, doc_file, calls, returned, error>>

\* Line 273: get_deep_research returns the message content r.
Hunter(r) ==
    /\ pc = "research"
    /\ calls' = Append(calls, "get_deep_research")
    /\ returned' = Append(returned, "get_deep_research")
    /\ research' = r
    /\ pc' = "narrative"
    /\ UNCHANGED <<company, response, strategy, narrative_exc, data,
                   chart_info, chart, arch, doc_file, error>>

\* Line 273: the API call of get_deep_research raises; nothing catches it.
HunterRaises ==
    /\ pc = "research"
    /\ calls' = Append(calls, "get_deep_research")
    /\ error' = "get_deep_research"
    /\ pc' = "crashed"
    /\ UNCHANGED <<company, research, response, strategy, narrative_exc, data,
                   chart_info, chart, arch, doc_file, returned>>

\* Architect calling get_strategic_narrative a second time when the first
\* call fell back.
ArchitectRetry(resp) ==
    /\ pc = "narrative"
    /\ LET out == get_strategic_narrative(company, resp)
       IN /\ strategy' = out.value
          /\ narrative_exc' = out.exc
          /\ calls' = IF out.exc = "none"
                      THEN Append(calls, "get_strategic_narrative")
                      ELSE calls \o <<"get_strategic_narrative", "get_strategic_narrative">>
          /\ returned' = IF out.exc = "none"
                         THEN Append(returned, "get_strategic_narrative")
                         ELSE returned \o <<"get_strategic_narrative", "get_strategic_narrative">>
    /\ response' = resp
    /\ pc' = "chart"
    /\ UNCHANGED <<company, research, data, chart_info, chart, arch, doc_file, error>>

\* Line 276: get_strategic_narrative, the model call ending as resp.
Architect(resp) ==
    /\ pc = "narrative"
    /\ LET out == get_strategic_narrative(company, resp)
       IN /\ strategy' = out.value
          /\ narrative_exc' = out.exc
    /\ response' = resp
    /\ calls' = Append(calls, "get_strategic_narrative")
    /\ returned' = Append(returned, "get_strategic_narrative")
    /\ pc' = "chart"
    /\ UNCHANGED <<company, research, data, chart_info, chart, arch, doc_file, error>>

\* Line 279: create_premium_chart(research).
Chart ==
    /\ pc = "chart"
    /\ LET out == create_premium_chart(research)
       IN /\ data' = out.data
          /\ chart_info' = [built |-> TRUE, n_years |-> out.n_years,
                            n_amounts |-> out.n_amounts, raised |-> out.raised]
          /\ IF out.df_raised
             THEN /\ error' = "create_premium_chart"
                  /\ pc' = "crashed"
                  /\ UNCHANGED <<chart, returned>>
             ELSE /\ chart' = "png"
                  /\ returned' = Append(returned, "create_premium_chart")
                  /\ pc' = "schematic"
                  /\ UNCHANGED error
    /\ calls' = Append(calls, "create_premium_chart")
    /\ UNCHANGED <<company, research, response, strategy, narrative_exc, arch, doc_file>>

\* Line 280: create_system_schematic().
Schematic ==
    /\ pc = "schematic"
    /\ arch' = "png"
    /\ calls' = Append(calls, "create_system_schematic")
    /\ returned' = Append(returned, "create_system_schematic")
    /\ pc' = "doc"
    /\ UNCHANGED <<company, research, response, strategy, narrative_exc, data,
                   chart_info, chart, doc_file, error>>

\* Line 283: create_consulting_doc(company, strategy, chart, arch).
Compile ==
    /\ pc = "doc"
    /\ LET out == create_consulting_doc(company, strategy, chart, arch)
       IN /\ doc_file' = out
          /\ IF out.ok
             THEN /\ returned' = Append(returned, "create_consulting_doc")
                  /\ pc' = "compiled"
                  /\ UNCHANGED error
             ELSE /\ error' = "create_consulting_doc"
                  /\ pc' = "crashed"
                  /\ UNCHANGED returned
    /\ calls' = Append(calls, "create_consulting_doc")
    /\ UNCHANGED <<company, research, response, strategy, narrative_exc, data,
                   chart_info, chart, arch>>

\* Lines 285-294: the status is completed and the download button offered.
OfferDownload ==
    /\ pc = "compiled"
    /\ pc' = "download"
    /\ UNCHANGED <<company, research, response, strategy, narrative_exc, data,
                   chart_info, chart, arch, doc_file, calls, returned, error>>

Next ==
    \/ Idle
    \/ \E c \in Companies : Click(c)
    \/ \E r \in RunResearch : Hunter(r)
    \/ HunterRaises
    \/ \E resp \in RunResponses : Architect(resp)
    \/ Chart
    \/ Schematic
    \/ Compile
    \/ OfferDownload

Spec == Init /\ [][Next]_vars

-----------------------------------------------------------------------------
(* get_strategic_narrative on its own, over every response                 *)

InitNarrative ==
    /\ pc = "narrative"
    /\ company \in Companies
    /\ research = None
    /\ response = NoResponse
    /\ strategy = PyNone
    /\ narrative_exc = "none"
    /\ data = NoData
    /\ chart_info = NoChartInfo
    /\ chart = "none"
    /\ arch = "none"
    /\ doc_file = NoDoc
    /\ calls = <<"get_deep_research">>
    /\ returned = <<"get_deep_research">>
    /\ error = "none"

NextNarrative == \E resp \in AllResponses : Architect(resp)

SpecNarrative == InitNarrative /\ [][NextNarrative]_vars

-----------------------------------------------------------------------------------------------------------------------------------------------------
(* Properties                                                              *)

\* The stages of a run in the order of lines 273-283.
Stages == <<"get_deep_research", "get_strategic_narrative", "create_premium_chart",
            "create_system_schematic", "create_consulting_doc">>

IsPrefix(a, b) == Len(a) <= Len(b) /\ a = SubSeq(b, 1, Len(a))

\* C1: in every run the stages are called as one linear sequence: the calls
\* made so far are always an initial part of Hunter, Architect, chart,
\* schematic, document, so none is repeated, retried or reordered; every
\* stage called before the latest one has returned (only the latest may have
\* raised, which ends the run); and the download button is offered only
\* after all five have returned.
C1_LinearRun ==
    /\ IsPrefix(calls, Stages)
    /\ IsPrefix(returned, calls)
    /\ pc # "crashed" => returned = calls
    /\ pc = "crashed" => Len(calls) = Len(returned) + 1
    /\ pc \in {"ui", "end"} => calls = <<>>
    /\ pc = "download" => returned = Stages

\* A run that went through all five stages and offers the download.
C1_Witness == pc = "download" /\ calls = Stages /\ returned = Stages

\* strategy is a mapping holding the six expected keys with str values.
WellFormed(strat) ==
    /\ strat.t = "dict"
    /\ \A i \in 1..Len(ExpectedKeys) :
          HasKey(strat, ExpectedKeys[i]) /\ DictGet(strat, ExpectedKeys[i]).t = "str"

\* C2: whatever the model answered, the value get_strategic_narrative
\* returned is a mapping with the six expected keys and string values, and
\* create_consulting_doc does not raise on it.
C2_SixStringKeys ==
    response.kind # "unset" =>
        WellFormed(strategy) /\ error # "create_consulting_doc"

\* a and b are mappings with the same keys and the same values.
SameMapping(a, b) ==
    /\ a.t = "dict" /\ b.t = "dict"
    /\ {a.items[i].k : i \in 1..Len(a.items)} = {b.items[i].k : i \in 1..Len(b.items)}
    /\ \A i \in 1..Len(a.items) :
          \E j \in 1..Len(b.items) :
              b.items[j].k = a.items[i].k /\ b.items[j].v = a.items[i].v

\* C3: when the response text is a dict literal with the six expected keys
\* and string values, optionally inside code fences and whitespace, the
\* mapping returned is the one the literal denotes, not the fallback.
C3_LiteralIsReturned ==
    response.kind = "text" /\ response.literal =>
        narrative_exc = "none" /\ SameMapping(strategy, response.denotes)

\* strategy[k] is the str s.
Holds(strat, k, s) == HasKey(strat, k) /\ DictGet(strat, k) = PyStr(s)

\* C4: get_strategic_narrative raises nothing, and whenever the model call
\* raised or the response text does not evaluate, it returned the fallback
\* mapping: title "Strategic Roadmap: <company>", executive_summary
\* "Analysis data unavailable. Please retry agent.", the other four "N/A".
C4_FallbackOnException ==
    response.kind # "unset" =>
        /\ pc = "chart" /\ error = "none"
        /\ (response.kind = "raise" \/ ~Eval(StripFences(response.text)).ok) =>
              /\ strategy.t = "dict" /\ Len(strategy.items) = 6
              /\ Holds(strategy, title, <<"S", "t", "r", "a", "t", "e", "g", "i", "c", " ", "R", "o", "a", "d", "m", "a", "p", ":", " ">> \o company)
              /\ Holds(strategy, executive_summary,
                       <<"A", "n", "a", "l", "y", "s", "i", "s", " ", "d", "a", "t", "a", " ", "u", "n", "a", "v", "a", "i", "l", "a", "b", "l", "e", ".", " ", "P", "l", "e", "a", "s", "e", " ", "r", "e", "t", "r", "y", " ", "a", "g", "e", "n", "t", ".">>)
              /\ \A k \in {problem_deep_dive, solution_tech, financial_impact, roadmap} :
                    Holds(strategy, k, <<"N", "/", "A">>)

\* A response text that did not evaluate, answered with the fallback for PB.
C4_Witness ==
    /\ response.kind = "text" /\ narrative_exc = "eval"
    /\ company = <<"P", "B">>
    /\ Holds(strategy, title, <<"S", "t", "r", "a", "t", "e", "g", "i", "c", " ", "R", "o", "a", "d", "m", "a", "p", ":", " ", "P", "B">>)

\* C5: when parsing the research text failed (fewer than four year matches,
\* fewer than four amounts, or an amount that is no number), the chart data
\* is the default in both columns.
C5_FailedParseKeepsDefaults ==
    chart_info.built /\ (chart_info.n_years < 4 \/ chart_info.n_amounts < 4
                         \/ chart_info.raised)
        => data = DefaultData

\* C6: when the data frame is built both columns have four entries, the
\* years are distinct and ascending, and building it does not raise.
C6_FourYearsFourRevenues ==
    chart_info.built =>
        /\ Len(data.Year) = 4 /\ Len(data.Revenue) = 4
        /\ \A i \in 1..(Len(data.Year) - 1) : StrLess(data.Year[i], data.Year[i + 1])
        /\ error # "create_premium_chart"

====
